---------------------------- MODULE Spec2Model ----------------------------
(***************************************************************************)
(* A model of go.uber.org/ratelimit: the leaky-bucket limiter in its       *)
(* lock-based (mutexLimiter) and pointer-swap (atomicLimiter) strategies,  *)
(* the option merging of buildConfig and the constructors.                 *)
(*                                                                         *)
(* Time is counted in ticks.  A time.Time is a natural number, the zero    *)
(* time.Time (the one IsZero reports) is 0 and every clock reading is      *)
(* positive.  A time.Duration is an integer number of ticks; the constant  *)
(* Second is time.Second expressed in ticks, kept small so that rates that *)
(* do and rates that do not divide the window both occur.                  *)
(***************************************************************************)
EXTENDS Integers, Sequences, FiniteSets, TLC

\* ------------------------------------------------------------------ bounds

\* Number of goroutines that may call Take on the limiter.
NumCallers == 2

\* Total number of Take calls started in one behaviour.
MaxTakes == 4

\* Total number of Take calls started in one behaviour whose clock moves
\* only to release sleepers.
MaxRun == 6

\* Calls of Take started in one behaviour of callers that never stop calling,
\* on a limiter whose Takes sleep.
MaxLive == 3

\* The clock ticks freely up to this instant; beyond it only while a sleeper
\* is still waiting for its deadline.
MaxTime == 4

\* --------------------------------------------------------------- constants

\* time.Second, in ticks.
Second == 2

\* The slack config.init sets when no option overrides it.
DefaultSlack == 10

\* The zero time.Time.
ZeroTime == 0

\* The instant the clock shows when the limiter is constructed.
StartTime == 1

Callers == 1..NumCallers

Strategies == {"mutex", "atomic"}

\* ----------------------------------------------------------------- helpers

Abs(x) == IF x < 0 THEN -x ELSE x

\* Go's integer division: the quotient truncated toward zero (b # 0).
GoDiv(a, b) ==
    IF (a >= 0) = (b > 0)
    THEN Abs(a) \div Abs(b)
    ELSE -(Abs(a) \div Abs(b))

\* A limiter that never sees its first request as the first.
IsZeroNever(t) == FALSE

\* t.IsZero()
IsZero(t) == t = ZeroTime

\* ----------------------------------------------------------------- options

\* WithClock(clock)
WithClock(c) == [kind |-> "clock", val |-> 0, clock |-> c]

\* WithSlack(slack)
WithSlack(n) == [kind |-> "slack", val |-> n, clock |-> "none"]

\* WithoutSlack
WithoutSlack == [kind |-> "slack", val |-> 0, clock |-> "none"]

\* Per(per)
Per(d) == [kind |-> "per", val |-> d, clock |-> "none"]

\* config.init: the defaults.
configInit == [clock |-> "real", slack |-> DefaultSlack, per |-> Second]

\* clockOption.apply, slackOption.apply, perOption.apply
apply(o, c) ==
    CASE o.kind = "clock" -> [c EXCEPT !.clock = o.clock]
      [] o.kind = "slack" -> [c EXCEPT !.slack = o.val]
      [] o.kind = "per"   -> [c EXCEPT !.per = o.val]

\* The options applied last to first.
RECURSIVE applyAllReversed(_, _)
applyAllReversed(os, c) ==
    IF os = <<>> THEN c ELSE apply(Head(os), applyAllReversed(Tail(os), c))

RECURSIVE applyAll(_, _)
applyAll(os, c) ==
    IF os = <<>> THEN c ELSE applyAll(Tail(os), apply(Head(os), c))

\* buildConfig(opts): the defaults, then every option in the order given.
buildConfig(os) == applyAll(os, configInit)

\* ------------------------------------------------------------ constructors

\* The value a constructor leaves when the division by the rate panics.
Panic == [panic |-> TRUE, perRequest |-> 0, maxSlack |-> 0, clock |-> "none"]

Limiter(p, s, c) == [panic |-> FALSE, perRequest |-> p, maxSlack |-> s, clock |-> c]

\* A constructor that counts the slack in units of a second over the rate,
\* whatever the window.
newAtomicBasedPerSecond(r, os) ==
    IF r = 0 THEN Panic
    ELSE LET config == buildConfig(os)
         IN  Limiter(GoDiv(config.per, r),
                     GoDiv((-1) * config.slack * Second, r), config.clock)

\* newAtomicBased / atomicLimiter.init
newAtomicBased(r, os) ==
    IF r = 0 THEN Panic
    ELSE LET config == buildConfig(os)
             perRequest == GoDiv(config.per, r)
         IN  Limiter(perRequest, (-1) * config.slack * perRequest, config.clock)

\* newMutexBased: the options are not read; the clock field is nil at the
\* test and is set to the real clock.
newMutexBased(r, os) ==
    IF r = 0 THEN Panic
    ELSE Limiter(GoDiv(Second, r), GoDiv((-10) * Second, r), "real")

\* newUnsafeBased: config.maxSlack is the slack of the config, the only
\* slack it holds.
newUnsafeBased(r, os) ==
    IF r = 0 THEN Panic
    ELSE LET config == buildConfig(os)
         IN  Limiter(GoDiv(config.per, r),
                     GoDiv((-1) * config.slack * Second, r), config.clock)

New(s, r, os) ==
    CASE s = "mutex"  -> newMutexBased(r, os)
      [] s = "unsafe" -> newUnsafeBased(r, os)
      [] OTHER        -> newAtomicBased(r, os)

\* ------------------------------------------------------------------- state

VARIABLES
    clk,        \* the clock's current instant
    strat,      \* the strategy of the limiter under test
    rate,       \* the rate given to the constructor
    opts,       \* the options given to the constructor
    config,     \* the config buildConfig returns for them
    lim,        \* the constructed limiter: perRequest, maxSlack, clock
    state,      \* atomicLimiter.state: the state the pointer refers to
    last,       \* mutexLimiter.last
    sleepFor,   \* mutexLimiter.sleepFor
    callers,    \* the goroutines that call Take
    quiet,      \* the clock has moved only while every caller was blocked
    mu,         \* mutexLimiter's Mutex: the set holding the caller that locked it
    pc,         \* where each caller is in Take
    now,        \* Take's local now
    old,        \* atomicLimiter.Take's oldStatePointer / oldState
    new,        \* atomicLimiter.Take's newState
    interval,   \* atomicLimiter.Take's interval
    wake,       \* the deadline of the caller's pending Sleep
    hist,       \* the committed Takes in commit order: now read, last and sleepFor left
    cm,         \* the latest commit: what it read, wrote and will sleep
    started,    \* number of Take calls started
    unsafe,     \* unsafeLimiter's last and sleepFor
    took,       \* what the latest Take of each limiter run in step slept and returned
    mock,       \* the mock clock: Mock.now and Mock.timers
    sleeper,    \* the goroutines that call Mock.Sleep: position and timer
    add         \* the goroutine that calls Mock.Add: position, locals, record

vars == <<clk, quiet, strat, rate, opts, config, lim, callers, state, last, sleepFor, mu,
          pc, now, old, new, interval, wake, hist, cm, started, unsafe, took,
          mock, sleeper, add>>

mockVars == <<mock, sleeper, add>>

cfgVars == <<strat, rate, opts, config, lim, callers>>

\* The zero state a nil state pointer stands for.
NilState == [ptr |-> 0, last |-> ZeroTime, sleepFor |-> 0]

\* The option lists the constructors are run with.
OptLists ==
    { <<>>,
      <<WithoutSlack>>,
      <<WithSlack(1)>>,
      <<WithoutSlack, Per(Second + 1)>> }

Rates == {1, 2}

\* ------------------------------------------------------ observation records

Commit(c, nw, d, first, pl, ps, nl, ns) ==
    [caller |-> c, now |-> nw, sleep |-> d, first |-> first,
     prevLast |-> pl, prevSleepFor |-> ps, ts |-> nl, sleepFor |-> ns]

\* A Take commits: the observers record it, the history as long as it has
\* room.
Observe(r) ==
    /\ hist' = IF Len(hist) < MaxRun
               THEN Append(hist, [now |-> r.now, ts |-> r.ts,
                                  sleepFor |-> r.sleepFor])
               ELSE hist
    /\ cm' = r

\* Before the first commit there is none to record.
NoCommit == Commit(0, ZeroTime, 0, FALSE, ZeroTime, 0, ZeroTime, 0)

\* Before any Take was run in step.
NoTake == [s \in {"atomic", "mutex", "unsafe"} |-> [sleep |-> 0, ret |-> ZeroTime]]

\* NewMock(): a mock clock with no timer.
NewMock == [now |-> StartTime, timers |-> {}]

\* No goroutine has called Sleep.
NoSleeper == [c \in Callers |-> [pc |-> "idle", next |-> ZeroTime]]

\* Add has not been called.
NoAdd == [pc |-> "idle", end |-> ZeroTime, start |-> ZeroTime, cur |-> 0,
          fired |-> <<>>, pending |-> {}, calls |-> 0]

\* A fresh limiter and no call in progress, whatever the clock shows.
InitFields ==
    /\ mock = NewMock
    /\ sleeper = NoSleeper
    /\ add = NoAdd
    /\ config = buildConfig(opts)
    /\ quiet = TRUE
    /\ state = NilState
    /\ last = ZeroTime
    /\ sleepFor = 0
    /\ mu = {}
    /\ pc = [c \in Callers |-> "idle"]
    /\ now = [c \in Callers |-> ZeroTime]
    /\ old = [c \in Callers |-> NilState]
    /\ new = [c \in Callers |-> NilState]
    /\ interval = [c \in Callers |-> 0]
    /\ wake = [c \in Callers |-> 0]
    /\ hist = <<>>
    /\ cm = NoCommit
    /\ started = 0
    /\ unsafe = [last |-> ZeroTime, sleepFor |-> 0]
    /\ took = NoTake

InitRun ==
    /\ clk = StartTime
    /\ InitFields

Init ==
    /\ strat \in Strategies
    /\ rate \in Rates
    /\ opts \in OptLists
    /\ lim = New(strat, rate, opts)
    /\ callers \in {1..n : n \in Callers}
    /\ InitRun

\* ---------------------------------------------------------- the clock

\* Every caller is blocked: asleep, waiting for the lock, or done calling
\* (cap calls have been started).
Blocked(cap) ==
    \A c \in callers :
        \/ pc[c] \in {"sleep", "lock"}
        \/ pc[c] = "idle" /\ started = cap

\* The clock moves on by one tick.
Tick ==
    /\ \/ clk < MaxTime
       \/ \E c \in Callers : pc[c] = "sleep" /\ wake[c] > clk
    /\ clk' = clk + 1
    /\ quiet' = (quiet /\ Blocked(MaxTakes))
    /\ UNCHANGED <<cfgVars, mockVars, unsafe, took, state, last, sleepFor, mu, pc, now, old, new,
                   interval, wake, hist, cm, started>>

\* ------------------------------------------------------------ calling Take

\* Take returns: its locals are gone.
Returned(c) ==
    /\ pc' = [pc EXCEPT ![c] = "idle"]
    /\ now' = [now EXCEPT ![c] = ZeroTime]
    /\ old' = [old EXCEPT ![c] = NilState]
    /\ new' = [new EXCEPT ![c] = NilState]
    /\ interval' = [interval EXCEPT ![c] = 0]
    /\ wake' = [wake EXCEPT ![c] = 0]

\* A goroutine calls Take; cap bounds the calls of one behaviour.
Call(c, cap) ==
    /\ c \in callers
    /\ ~lim.panic
    /\ pc[c] = "idle"
    /\ started < cap
    /\ started' = started + 1
    /\ pc' = [pc EXCEPT ![c] = IF strat = "mutex" THEN "lock" ELSE "now"]
    /\ UNCHANGED <<clk, quiet, cfgVars, mockVars, unsafe, took, state, last, sleepFor, mu, now, old, new,
                   interval, wake, hist, cm>>

\* ------------------------------------------------- mutexLimiter.Take

\* An update that charges the request twice its perRequest.
mutexSleepForTwice(sf, l, nw, lm) ==
    LET s == sf + 2 * lm.perRequest - (nw - l)
    IN  IF s < lm.maxSlack THEN lm.maxSlack ELSE s

\* An update that forgets to charge the request its perRequest.
mutexSleepForNoAdd(sf, l, nw, lm) ==
    LET s == sf - (nw - l)
    IN  IF s < lm.maxSlack THEN lm.maxSlack ELSE s

\* t.sleepFor += t.perRequest - now.Sub(t.last), then the clamp at maxSlack.
mutexSleepFor(sf, l, nw, lm) ==
    LET s == sf + lm.perRequest - (nw - l)
    IN  IF s < lm.maxSlack THEN lm.maxSlack ELSE s

\* A Lock that does not wait for the holder.
MLockNoWait(c) ==
    /\ strat = "mutex"
    /\ pc[c] = "lock"
    /\ mu' = mu \cup {c}
    /\ pc' = [pc EXCEPT ![c] = "now"]
    /\ UNCHANGED <<clk, quiet, cfgVars, mockVars, unsafe, took, state, last, sleepFor,
                   now, old, new, interval, wake, hist, cm, started>>

\* t.Lock()
MLock(c) ==
    /\ strat = "mutex"
    /\ pc[c] = "lock"
    /\ mu = {}
    /\ mu' = {c}
    /\ pc' = [pc EXCEPT ![c] = "now"]
    /\ UNCHANGED <<clk, quiet, cfgVars, mockVars, unsafe, took, state, last, sleepFor, now, old, new,
                   interval, wake, hist, cm, started>>

\* now := t.clock.Now()
MNow(c) ==
    /\ strat = "mutex"
    /\ pc[c] = "now"
    /\ now' = [now EXCEPT ![c] = clk]
    /\ pc' = [pc EXCEPT ![c] = "calc"]
    /\ UNCHANGED <<clk, quiet, cfgVars, mockVars, unsafe, took, state, last, sleepFor, mu, old, new,
                   interval, wake, hist, cm, started>>

\* The first-request test, the sleepFor update and either the call of Sleep
\* or, when nothing is owed, the return (which unlocks).
MCalc(c) ==
    /\ strat = "mutex"
    /\ pc[c] = "calc"
    /\ IF IsZero(last)
       THEN /\ last' = now[c]
            /\ Observe(Commit(c, now[c], 0, TRUE, last, sleepFor,
                                           now[c], sleepFor))
            /\ mu' = {}
            /\ Returned(c)
            /\ UNCHANGED sleepFor
       ELSE LET sf == mutexSleepFor(sleepFor, last, now[c], lim)
            IN  IF sf > 0
                THEN /\ sleepFor' = sf
                     /\ wake' = [wake EXCEPT ![c] = clk + sf]
                     /\ Observe(Commit(c, now[c], sf, FALSE, last,
                                                    sleepFor, now[c] + sf, 0))
                     /\ pc' = [pc EXCEPT ![c] = "sleep"]
                     /\ UNCHANGED <<last, mu, now, old, new, interval>>
                ELSE /\ sleepFor' = sf
                     /\ last' = now[c]
                     /\ Observe(Commit(c, now[c], 0, FALSE, last,
                                                    sleepFor, now[c], sf))
                     /\ mu' = {}
                     /\ Returned(c)
    /\ UNCHANGED <<clk, quiet, cfgVars, mockVars, unsafe, took, state, started>>

\* A wake-up that returns without unlocking.
MWakeHoldLock(c) ==
    /\ strat = "mutex"
    /\ pc[c] = "sleep"
    /\ clk >= wake[c]
    /\ last' = now[c] + sleepFor
    /\ sleepFor' = 0
    /\ Returned(c)
    /\ UNCHANGED <<clk, quiet, cfgVars, mockVars, unsafe, took, state, mu, hist, cm, started>>

\* A wake-up that leaves last at the now read before the sleep.
MWakeNoShift(c) ==
    /\ strat = "mutex"
    /\ pc[c] = "sleep"
    /\ clk >= wake[c]
    /\ last' = now[c]
    /\ sleepFor' = 0
    /\ mu' = {}
    /\ Returned(c)
    /\ UNCHANGED <<clk, quiet, cfgVars, mockVars, unsafe, took, state, hist, cm, started>>

\* A wake-up that moves last on but keeps the delay as a debt.
MWakeKeepDebt(c) ==
    /\ strat = "mutex"
    /\ pc[c] = "sleep"
    /\ clk >= wake[c]
    /\ last' = now[c] + sleepFor
    /\ mu' = {}
    /\ Returned(c)
    /\ UNCHANGED <<clk, quiet, cfgVars, mockVars, unsafe, took, state, sleepFor, hist, cm,
                   started>>

\* Sleep returns; t.last = now.Add(t.sleepFor); t.sleepFor = 0; return.
MWake(c) ==
    /\ strat = "mutex"
    /\ pc[c] = "sleep"
    /\ clk >= wake[c]
    /\ last' = now[c] + sleepFor
    /\ sleepFor' = 0
    /\ mu' = {}
    /\ Returned(c)
    /\ UNCHANGED <<clk, quiet, cfgVars, mockVars, unsafe, took, state, hist, cm, started>>

\* ------------------------------------------------ atomicLimiter.Take

\* A pass that computes the delay but leaves last at now.
atomicAttemptNoAdd(nw, os, iv, lm) ==
    IF IsZero(os.last)
    THEN [last |-> nw, sleepFor |-> os.sleepFor, interval |-> iv]
    ELSE LET s  == os.sleepFor + lm.perRequest - (nw - os.last)
             sf == IF s < lm.maxSlack THEN lm.maxSlack ELSE s
         IN  IF sf > 0
             THEN [last |-> nw, sleepFor |-> 0, interval |-> sf]
             ELSE [last |-> nw, sleepFor |-> sf, interval |-> iv]

\* A pass that banks no credit: the clamp is at zero, whatever maxSlack is.
atomicAttemptNoSlack(nw, os, iv, lm) ==
    IF IsZero(os.last)
    THEN [last |-> nw, sleepFor |-> os.sleepFor, interval |-> iv]
    ELSE LET s  == os.sleepFor + lm.perRequest - (nw - os.last)
             sf == IF s < 0 THEN 0 ELSE s
         IN  IF sf > 0
             THEN [last |-> nw + sf, sleepFor |-> 0, interval |-> sf]
             ELSE [last |-> nw, sleepFor |-> sf, interval |-> iv]

\* A pass without the clamp at maxSlack.
atomicAttemptNoClamp(nw, os, iv, lm) ==
    IF IsZero(os.last)
    THEN [last |-> nw, sleepFor |-> os.sleepFor, interval |-> iv]
    ELSE LET sf == os.sleepFor + lm.perRequest - (nw - os.last)
         IN  IF sf > 0
             THEN [last |-> nw + sf, sleepFor |-> 0, interval |-> sf]
             ELSE [last |-> nw, sleepFor |-> sf, interval |-> iv]

\* A pass that moves last on by the delay but asks Sleep for one tick less.
atomicAttemptShortSleep(nw, os, iv, lm) ==
    IF IsZero(os.last)
    THEN [last |-> nw, sleepFor |-> os.sleepFor, interval |-> iv]
    ELSE LET s  == os.sleepFor + lm.perRequest - (nw - os.last)
             sf == IF s < lm.maxSlack THEN lm.maxSlack ELSE s
         IN  IF sf > 0
             THEN [last |-> nw + sf, sleepFor |-> 0, interval |-> sf - 1]
             ELSE [last |-> nw, sleepFor |-> sf, interval |-> iv]

\* One pass of the loop body up to the CompareAndSwap: the newState and the
\* interval it leaves, from the now read, the state loaded and the interval
\* left by the passes before.
atomicAttempt(nw, os, iv, lm) ==
    IF IsZero(os.last)
    THEN [last |-> nw, sleepFor |-> os.sleepFor, interval |-> iv]
    ELSE LET s  == os.sleepFor + lm.perRequest - (nw - os.last)
             sf == IF s < lm.maxSlack THEN lm.maxSlack ELSE s
         IN  IF sf > 0
             THEN [last |-> nw + sf, sleepFor |-> 0, interval |-> sf]
             ELSE [last |-> nw, sleepFor |-> sf, interval |-> iv]

\* A newState stored at the address of the state it replaces.
stalePtr == state.ptr

\* The address of a newState: one that nothing refers to.
freshPtr ==
    CHOOSE n \in 1..(NumCallers + 2) :
        /\ n # state.ptr
        /\ \A c \in Callers : n # old[c].ptr
        /\ \A m \in 1..(n - 1) : m = state.ptr \/ \E c \in Callers : m = old[c].ptr

\* var now = t.clock.Now()
ANow(c) ==
    /\ strat = "atomic"
    /\ pc[c] = "now"
    /\ now' = [now EXCEPT ![c] = clk]
    /\ pc' = [pc EXCEPT ![c] = "load"]
    /\ UNCHANGED <<clk, quiet, cfgVars, mockVars, unsafe, took, state, last, sleepFor, mu, old, new,
                   interval, wake, hist, cm, started>>

\* oldStatePointer = t.state.Load()
ALoad(c) ==
    /\ strat = "atomic"
    /\ pc[c] = "load"
    /\ old' = [old EXCEPT ![c] = state]
    /\ pc' = [pc EXCEPT ![c] = "cas"]
    /\ UNCHANGED <<clk, quiet, cfgVars, mockVars, unsafe, took, state, last, sleepFor, mu, now, new,
                   interval, wake, hist, cm, started>>

\* A Take that goes on to Sleep whether or not its CompareAndSwap succeeded.
ACasNoRetry(c) ==
    /\ strat = "atomic"
    /\ pc[c] = "cas"
    /\ LET a == atomicAttempt(now[c], old[c], interval[c], lim)
       IN  /\ interval' = [interval EXCEPT ![c] = a.interval]
           /\ IF state.ptr = old[c].ptr
              THEN /\ state' = [ptr |-> freshPtr, last |-> a.last,
                                sleepFor |-> a.sleepFor]
                   /\ new' = [new EXCEPT ![c] = state']
                   /\ old' = [old EXCEPT ![c] = NilState]
                   /\ Observe(Commit(c, now[c], a.interval, IsZero(old[c].last),
                                old[c].last, old[c].sleepFor, a.last, a.sleepFor))
                   /\ pc' = [pc EXCEPT ![c] = "call"]
              ELSE /\ new' = [new EXCEPT ![c] =
                         [ptr |-> 0, last |-> a.last, sleepFor |-> a.sleepFor]]
                   /\ pc' = [pc EXCEPT ![c] = "call"]
                   /\ UNCHANGED <<state, old, hist, cm>>
    /\ UNCHANGED <<clk, quiet, cfgVars, mockVars, unsafe, took, last, sleepFor, mu, now, wake, started>>

\* The computation of newState and t.state.CompareAndSwap.
ACas(c) ==
    /\ strat = "atomic"
    /\ pc[c] = "cas"
    /\ LET a == atomicAttempt(now[c], old[c], interval[c], lim)
       IN  /\ interval' = [interval EXCEPT ![c] = a.interval]
           /\ IF state.ptr = old[c].ptr
              THEN /\ state' = [ptr |-> freshPtr, last |-> a.last,
                                sleepFor |-> a.sleepFor]
                   /\ new' = [new EXCEPT ![c] = state']
                   /\ old' = [old EXCEPT ![c] = NilState]
                   /\ Observe(Commit(c, now[c], a.interval, IsZero(old[c].last),
                                old[c].last, old[c].sleepFor, a.last, a.sleepFor))
                   /\ pc' = [pc EXCEPT ![c] = "call"]
              ELSE /\ new' = [new EXCEPT ![c] =
                         [ptr |-> 0, last |-> a.last, sleepFor |-> a.sleepFor]]
                   /\ pc' = [pc EXCEPT ![c] = "now"]
                   /\ UNCHANGED <<state, old, hist, cm>>
    /\ UNCHANGED <<clk, quiet, cfgVars, mockVars, unsafe, took, last, sleepFor, mu, now, wake, started>>

\* t.clock.Sleep(interval): a duration that is not positive returns at once,
\* and Take returns newState.last.
ASleep(c) ==
    /\ strat = "atomic"
    /\ pc[c] = "call"
    /\ IF interval[c] > 0
       THEN /\ wake' = [wake EXCEPT ![c] = clk + interval[c]]
            /\ pc' = [pc EXCEPT ![c] = "sleep"]
            /\ UNCHANGED <<now, old, new, interval>>
       ELSE Returned(c)
    /\ UNCHANGED <<clk, quiet, cfgVars, mockVars, unsafe, took, state, last, sleepFor, mu, hist, cm, started>>

\* Sleep returns; return newState.last.
AWake(c) ==
    /\ strat = "atomic"
    /\ pc[c] = "sleep"
    /\ clk >= wake[c]
    /\ Returned(c)
    /\ UNCHANGED <<clk, quiet, cfgVars, mockVars, unsafe, took, state, last, sleepFor, mu, hist, cm, started>>

\* ------------------------------------------------------- specifications

\* The steps of a Take that has been called.
Run(c) ==
    \/ MLock(c)
    \/ MNow(c)
    \/ MCalc(c)
    \/ MWake(c)
    \/ ANow(c)
    \/ ALoad(c)
    \/ ACas(c)
    \/ ASleep(c)
    \/ AWake(c)

Take(c, cap) ==
    \/ Call(c, cap)
    \/ MLock(c)
    \/ MNow(c)
    \/ MCalc(c)
    \/ MWake(c)
    \/ ANow(c)
    \/ ALoad(c)
    \/ ACas(c)
    \/ ASleep(c)
    \/ AWake(c)

Next ==
    \/ \E c \in Callers : Take(c, MaxTakes)
    \/ Tick

\* Any number of callers, the clock moving freely.
Spec == Init /\ [][Next]_vars

\* The clock is moved to the earliest pending Sleep deadline, as a test
\* that drives a mock clock does.
Advance ==
    /\ \E c \in Callers : pc[c] = "sleep" /\ wake[c] > clk
    /\ \A c \in Callers : pc[c] = "sleep" => wake[c] > clk
    /\ \E c \in Callers :
          /\ pc[c] = "sleep"
          /\ \A d \in Callers : pc[d] = "sleep" => wake[c] <= wake[d]
          /\ clk' = wake[c]
    /\ quiet' = (quiet /\ Blocked(MaxRun))
    /\ UNCHANGED <<cfgVars, mockVars, unsafe, took, state, last, sleepFor, mu, pc, now, old, new,
                   interval, wake, hist, cm, started>>

NextDriven ==
    \/ \E c \in Callers : Take(c, MaxRun)
    \/ Advance

\* Any number of callers, the clock moving only to release sleepers.
SpecDriven == Init /\ [][NextDriven]_vars

\* A rate of 1 per second, and one above the resolution of the clock, for
\* which perRequest is 0.
RatesLive == {1, Second + 1}

InitLive ==
    /\ strat \in Strategies
    /\ rate \in RatesLive
    /\ opts = <<>>
    /\ lim = New(strat, rate, opts)
    /\ callers = Callers
    /\ InitRun

\* A goroutine calls Take, again and again. The calls are counted, and
\* bounded by MaxLive, only where Takes sleep and so move the clock on: with
\* perRequest = 0 no bound is needed for the states to be finitely many.
CallLive(c) ==
    /\ c \in callers
    /\ ~lim.panic
    /\ pc[c] = "idle"
    /\ lim.perRequest > 0 => started < MaxLive
    /\ started' = IF lim.perRequest > 0 THEN started + 1 ELSE started
    /\ pc' = [pc EXCEPT ![c] = IF strat = "mutex" THEN "lock" ELSE "now"]
    /\ UNCHANGED <<clk, quiet, cfgVars, mockVars, unsafe, took, state, last, sleepFor, mu, now, old,
                   new, interval, wake, hist, cm>>

NextLive ==
    \/ \E c \in Callers : CallLive(c) \/ Run(c)
    \/ Advance

\* The scheduler runs every goroutine that can take a step, sync.Mutex hands
\* the lock to a goroutine that keeps waiting for it, and the clock moves on
\* to end the sleeps.
Fairness ==
    /\ WF_vars(Advance)
    /\ \A c \in Callers : WF_vars(Run(c))
    /\ \A c \in Callers : SF_vars(MLock(c))

\* Callers that call Take for ever, under a fair scheduler.
SpecLive == InitLive /\ [][NextLive]_vars /\ Fairness

\* mutexLimiter.Take run by one goroutine, from the call to the return: the
\* fields it leaves, the duration it gave to Sleep and the value it returns.
mutexTake(l, sf, nw, lm) ==
    IF IsZero(l)
    THEN [last |-> nw, sleepFor |-> sf, sleep |-> 0, ret |-> nw]
    ELSE LET s == mutexSleepFor(sf, l, nw, lm)
         IN  IF s > 0
             THEN [last |-> nw + s, sleepFor |-> 0, sleep |-> s, ret |-> nw + s]
             ELSE [last |-> nw, sleepFor |-> s, sleep |-> 0, ret |-> nw]

\* An unsafeLimiter.Take that sleeps what it owes and leaves last at now.
unsafeTakeNoShift(l, sf, nw, lm) ==
    IF IsZero(l)
    THEN [last |-> nw, sleepFor |-> sf, sleep |-> 0, ret |-> nw]
    ELSE LET a == sf + lm.perRequest - (nw - l)
             s == IF a < lm.maxSlack THEN lm.maxSlack ELSE a
         IN  IF s > 0
             THEN [last |-> nw, sleepFor |-> 0, sleep |-> s, ret |-> nw]
             ELSE [last |-> nw, sleepFor |-> s, sleep |-> 0, ret |-> nw]

\* unsafeLimiter.Take, from the call to the return.
unsafeTake(l, sf, nw, lm) ==
    IF IsZero(l)
    THEN [last |-> nw, sleepFor |-> sf, sleep |-> 0, ret |-> nw]
    ELSE LET a == sf + lm.perRequest - (nw - l)
             s == IF a < lm.maxSlack THEN lm.maxSlack ELSE a
         IN  IF s > 0
             THEN [last |-> nw + s, sleepFor |-> 0, sleep |-> s, ret |-> nw + s]
             ELSE [last |-> nw, sleepFor |-> s, sleep |-> 0, ret |-> nw]

\* atomicLimiter.Take whose first attempt succeeds, from the call to the
\* return.
atomicTake(l, sf, nw, lm) ==
    LET a == atomicAttempt(nw, [ptr |-> 0, last |-> l, sleepFor |-> sf], 0, lm)
    IN  [last |-> a.last, sleepFor |-> a.sleepFor, sleep |-> a.interval,
         ret |-> a.last]

\* Three limiters with the same perRequest and maxSlack, one of each kind.
InitEquiv ==
    /\ strat = "atomic"
    /\ rate \in Rates
    /\ opts \in OptLists
    /\ lim = newAtomicBased(rate, opts)
    /\ callers = {1}
    /\ InitRun

\* One goroutine calls Take on each of the three limiters, and each Take
\* reads the same now from its clock: any instant, also one that lies before
\* the last of the limiter.
LockstepTake ==
    \E nw \in StartTime..MaxTime :
        LET a == atomicTake(state.last, state.sleepFor, nw, lim)
            m == mutexTake(last, sleepFor, nw, lim)
            u == unsafeTake(unsafe.last, unsafe.sleepFor, nw, lim)
        IN  /\ started < MaxRun
            /\ started' = started + 1
            /\ state' = [ptr |-> freshPtr, last |-> a.last,
                         sleepFor |-> a.sleepFor]
            /\ last' = m.last
            /\ sleepFor' = m.sleepFor
            /\ unsafe' = [last |-> u.last, sleepFor |-> u.sleepFor]
            /\ took' = [atomic |-> [sleep |-> a.sleep, ret |-> a.ret],
                        mutex  |-> [sleep |-> m.sleep, ret |-> m.ret],
                        unsafe |-> [sleep |-> u.sleep, ret |-> u.ret]]
            /\ UNCHANGED <<clk, quiet, cfgVars, mockVars, mu, pc, now, old, new,
                           interval, wake, hist, cm>>

\* The three kinds of limiter run on the same sequence of now values.
SpecEquiv == InitEquiv /\ [][LockstepTake]_vars

\* Rates and windows that no pacing can be derived from.
RatesAny == {-1, 0, 1}

OptListsAny == { <<>>, <<Per(0)>>, <<Per(-Second)>> }

\* A constructor called with a rate or a window that is not positive.
InitAny ==
    /\ strat \in Strategies
    /\ rate \in RatesAny
    /\ opts \in OptListsAny
    /\ rate <= 0 \/ buildConfig(opts).per <= 0
    /\ lim = New(strat, rate, opts)
    /\ callers = {1}
    /\ InitRun

\* One caller on what the constructor returned.
SpecNew == InitAny /\ [][Next]_vars

\* ------------------------------------------------- the state of the limiter

\* The last and sleepFor of the limiter, whichever strategy holds them.
CurLast == IF strat = "mutex" THEN last ELSE state.last

CurSleepFor == IF strat = "mutex" THEN sleepFor ELSE state.sleepFor

\* The timestamps of the Takes committed so far.
Stamps == {hist[i].ts : i \in 1..Len(hist)}

\* Number of committed Takes whose timestamp lies in [t, t + len).
CountIn(t, len) ==
    Cardinality({i \in 1..Len(hist) : t <= hist[i].ts /\ hist[i].ts < t + len})

\* The least k with k * d >= n (n >= 0, d > 0).
CeilDiv(n, d) == (n + d - 1) \div d

\* What the caller asked the constructor for.
Asked == buildConfig(opts)

\* ---------------------------------------------------------------- claims

\* The instants a window of the rate bound starts at: a window that holds
\* the most timestamps starts at one of them.
WindowStarts == Stamps

\* The lengths of the windows counted.
WindowLens == 1..(MaxTime + 1)

\* C1, as stated: with slack disabled, every half-open interval of n windows
\* [t, t + n*W) holds at most n*R authorized timestamps.
C1_RateBound ==
    (lim.maxSlack = 0 /\ lim.perRequest = GoDiv(Asked.per, rate)) =>
        \A t \in WindowStarts : \A n \in 1..2 :
            CountIn(t, n * Asked.per) <= n * rate

\* C1, amended: with slack disabled (maxSlack = 0) every half-open interval
\* of length len holds at most ceil(len / perRequest) authorized timestamps,
\* perRequest being window / rate truncated; that is n*R for n windows only
\* when the rate divides the window.
C1_RateBoundTruncated ==
    (lim.maxSlack = 0 /\ lim.perRequest > 0) =>
        \A t \in WindowStarts : \A len \in WindowLens :
            CountIn(t, len) <= CeilDiv(len, lim.perRequest)

\* C1: the bound is attained by three saturating Takes of a strict limiter.
C1_Witness ==
    /\ lim.maxSlack = 0
    /\ Len(hist) >= 3
    /\ CountIn(hist[1].ts, 2 * lim.perRequest + 1) = 3

\* C2: a single caller calling Take again as soon as the last one returned,
\* the clock moved only by the sleeps of Take: every timestamp from the second
\* on is exactly perRequest after the one before (with slack disabled, and
\* with any other slack too).
C2_SequentialGaps ==
    callers = {1} =>
        \A i \in 2..Len(hist) : hist[i].ts = hist[i - 1].ts + lim.perRequest

\* C2: a single caller has made four Takes on a limiter with slack disabled.
C2_Witness ==
    /\ callers = {1}
    /\ lim.maxSlack = 0
    /\ Len(hist) >= 4
    /\ pc[1] = "idle"

\* C3: the first Take on a fresh limiter takes the first-request path,
\* commits {last: now, sleepFor: 0}, sleeps nothing and is given now.
C3_FirstCallFree ==
    Len(hist) = 1 =>
        /\ cm.first
        /\ cm.ts = cm.now
        /\ cm.sleep = 0
        /\ CurLast = cm.now
        /\ CurSleepFor = 0
        /\ \A c \in Callers : pc[c] = "sleep" => c # cm.caller

\* C3: a first Take made after time has passed, on a limiter with slack.
C3_Witness ==
    /\ Len(hist) = 1
    /\ cm.first
    /\ cm.now > StartTime
    /\ lim.maxSlack < 0
    /\ pc[cm.caller] = "idle"

\* C4, as stated: the timestamps of the committed Takes, in commit order,
\* never decrease.
C4_Monotonic ==
    \A i \in 1..Len(hist) : \A j \in 1..Len(hist) :
        i < j => hist[i].ts <= hist[j].ts

\* The slack of the limiter in perRequest units.
SlackUnits == GoDiv(-lim.maxSlack, lim.perRequest)

\* The idle time before the i-th committed Take: from the last admission to
\* the instant the Take read the clock.
IdleBefore(i) == hist[i].now - hist[i - 1].ts

\* The committed Takes i..n are a burst after an idle period of at least
\* S*perRequest: all of them read the clock at the same instant.
BurstAt(i, n) ==
    /\ SlackUnits > 0
    /\ IdleBefore(i) >= SlackUnits * lim.perRequest
    /\ \A j \in i..n : hist[j].now = hist[i].now

\* C5, as stated: with slack S > 0, after an idle period of at least
\* S*perRequest the next S back-to-back Takes are admitted with no delay and
\* the (S+1)-th is delayed.
C5_BurstBound ==
    LET n == Len(hist)
    IN  \A i \in 2..n :
            BurstAt(i, n) =>
                /\ n - i + 1 <= SlackUnits => cm.ts = cm.now
                /\ n - i + 1 = SlackUnits + 1 => cm.ts > cm.now

\* C5, amended: the next S Takes are admitted at the instant they ask (and a
\* single caller does not sleep); the (S+1)-th is delayed exactly when the
\* idle period was shorter than (S+1)*perRequest less the credit banked
\* before it; the (S+2)-th is delayed in every case.
C5_BurstBoundIdle ==
    LET n == Len(hist)
    IN  \A i \in 2..n :
            BurstAt(i, n) =>
                /\ n - i + 1 <= SlackUnits =>
                      /\ cm.ts = cm.now
                      /\ callers = {1} => cm.sleep = 0
                /\ n - i + 1 = SlackUnits + 1 =>
                      (cm.ts > cm.now <=>
                          IdleBefore(i) < (SlackUnits + 1) * lim.perRequest
                                              + hist[i - 1].sleepFor)
                /\ n - i + 1 >= SlackUnits + 2 =>
                      /\ cm.ts > cm.now
                      /\ cm.sleep > 0

\* C5: after an idle period of (S+1)*perRequest the (S+1)-th Take of the
\* burst was admitted with no delay and the (S+2)-th has been delayed.
C5_Witness ==
    LET n == Len(hist)
    IN  /\ n >= SlackUnits + 3
        /\ BurstAt(n - SlackUnits - 1, n)
        /\ IdleBefore(n - SlackUnits - 1) >= (SlackUnits + 1) * lim.perRequest
        /\ hist[n - 1].ts = hist[n - 1].now
        /\ cm.ts > cm.now

\* The slot of the j-th committed Take when the i-th opened a saturated
\* period with the credit at its cap: S Takes share the opening instant with
\* the i-th, the later ones follow at perRequest.
Slot(i, j) ==
    IF j - i <= SlackUnits
    THEN hist[i].now
    ELSE hist[i].now + (j - i - SlackUnits) * lim.perRequest

\* The committed Takes from the i-th on that are authorized before
\* hist[i].now + len.
CountFrom(i, len) ==
    Cardinality({j \in i..Len(hist) : hist[j].ts < hist[i].now + len})

\* C6: a window of length len holds at most ceil(len / perRequest) + S
\* timestamps, however long the limiter was idle; and when the i-th Take
\* comes after an idle period long enough to fill the credit and every later
\* Take asks by its slot, the Takes are authorized exactly at their slots:
\* S more of them than ceil(T / perRequest) in a period T.
C6_SlackCap ==
    lim.perRequest > 0 =>
        /\ \A t \in WindowStarts : \A len \in WindowLens :
              CountIn(t, len) <= CeilDiv(len, lim.perRequest) + SlackUnits
        /\ \A i \in 2..Len(hist) :
              ( /\ IdleBefore(i) >= (SlackUnits + 1) * lim.perRequest
                /\ \A j \in (i + 1)..Len(hist) : hist[j].now <= Slot(i, j) ) =>
                  /\ \A j \in i..Len(hist) : hist[j].ts = Slot(i, j)
                  /\ \A T \in WindowLens :
                        CeilDiv(T, lim.perRequest) + SlackUnits
                                <= Len(hist) - i + 1 =>
                            CountFrom(i, T) =
                                CeilDiv(T, lim.perRequest) + SlackUnits

\* C6: after an idle period longer than the credit can hold, three Takes
\* saturate a limiter with slack: S + 2 of them fall within perRequest + 1.
C6_Witness ==
    /\ SlackUnits > 0
    /\ Len(hist) = SlackUnits + 3
    /\ IdleBefore(2) > (SlackUnits + 1) * lim.perRequest
    /\ \A j \in 3..Len(hist) : hist[j].now <= Slot(2, j)
    /\ CountFrom(2, lim.perRequest + 1) = SlackUnits + 2

\* C7, as stated: M callers looping on one limiter with slack disabled, the
\* clock moving only to the next pending Sleep deadline: the i-th committed
\* timestamp is start + (i-1)*perRequest, no slot skipped or repeated.
C7_ExactSlots ==
    lim.maxSlack = 0 =>
        \A i \in 1..Len(hist) :
            hist[i].ts = hist[1].ts + (i - 1) * lim.perRequest

\* C7, amended: when moreover the clock moves only while every caller is
\* blocked, the i-th committed timestamp is start + (i-1)*perRequest, and
\* ceil(T / perRequest) timestamps lie before start + T.
C7_ExactSlotsQuiet ==
    quiet =>
        /\ \A i \in 1..Len(hist) :
              hist[i].ts = hist[1].ts + (i - 1) * lim.perRequest
        /\ \A T \in 1..(MaxRun * Second) :
              (Len(hist) >= 1 /\ CeilDiv(T, lim.perRequest) <= Len(hist)) =>
                  CountIn(hist[1].ts, T) = CeilDiv(T, lim.perRequest)

\* C7: two callers have shared all the Takes of a run on a limiter with
\* slack disabled and both sleep towards their slots.
C7_Witness ==
    /\ quiet
    /\ callers = Callers
    /\ lim.maxSlack = 0
    /\ Len(hist) = MaxRun
    /\ \A c \in Callers : pc[c] = "sleep"

\* C8: as long as every committed Take read the clock at the instant t0 of
\* the first, the i-th committed timestamp is t0 + (i-1)*perRequest, whatever
\* the slack, and the caller that committed it is the one that returns it.
C8_InitialRace ==
    /\ \A i \in 1..Len(hist) :
          (\A j \in 1..i : hist[j].now = hist[1].now) =>
              hist[i].ts = hist[1].now + (i - 1) * lim.perRequest
    /\ \A c \in Callers :
          (cm.caller = c /\ pc[c] \in {"call", "sleep"}) =>
              cm.ts = IF strat = "mutex" THEN now[c] + sleepFor ELSE new[c].last

\* C8: on a limiter with the default slack, a first Take was admitted at t0
\* and every caller then committed one at t0 and sleeps towards its own slot.
C8_Witness ==
    /\ lim.maxSlack < 0
    /\ Len(hist) = NumCallers + 1
    /\ \A j \in 1..Len(hist) : hist[j].now = hist[1].now
    /\ \A c \in Callers : pc[c] = "sleep"
    /\ \A c, d \in Callers : c # d => new[c].last # new[d].last

\* C10, as stated: a constructor given a rate <= 0 or a window <= 0 fails and
\* yields no limiter (the panic of a division by zero counted as failing), so
\* there is none on which a Take is admitted.
C10_Validated ==
    (rate <= 0 \/ Asked.per <= 0) => Len(hist) = 0

\* C9, as stated: every Take that was called eventually returns, in both
\* strategies.
C9_Liveness ==
    \A c \in Callers : (pc[c] # "idle") ~> (pc[c] = "idle")

\* C9, amended: a Take of the lock-based limiter always returns, and so does
\* a Take of the compare-and-swap limiter once it has committed; while some
\* caller is at its CompareAndSwap, some caller commits. (A caller that is
\* outraced every time keeps retrying.)
C9_LivenessCommitted ==
    /\ \A c \in Callers :
          (pc[c] # "idle" /\ (strat = "mutex" \/ pc[c] \in {"call", "sleep"}))
              ~> (pc[c] = "idle")
    /\ (\E c \in Callers : pc[c] = "cas") ~> (\E c \in Callers : pc[c] = "call")

\* C9: a caller waits for the lock while its holder sleeps.
C9_Witness ==
    /\ strat = "mutex"
    /\ \E c, d \in Callers :
          /\ pc[c] = "lock"
          /\ pc[d] = "sleep"
          /\ wake[d] > clk
          /\ mu = {d}

\* C11, as stated: the duration a Take passes to Sleep is at most
\* perRequest + |maxSlack|, in every strategy and for any number of callers.
C11_SuspensionBound ==
    cm.sleep <= lim.perRequest + Abs(lim.maxSlack)

\* C11, amended: a Take of the lock-based limiter sleeps at most perRequest;
\* an attempt of the compare-and-swap limiter that sets the interval sets it
\* to the distance from its now to the last it commits, which is at most
\* perRequest plus the lead of the loaded last over that now.
C11_SuspensionBoundLead ==
    /\ strat = "mutex" => cm.sleep <= lim.perRequest
    /\ \A c \in Callers :
          pc[c] = "cas" =>
              LET a == atomicAttempt(now[c], old[c], interval[c], lim)
              IN  a.last # now[c] =>
                      /\ a.interval = a.last - now[c]
                      /\ a.interval <= lim.perRequest + (old[c].last - now[c])
                      /\ old[c].last >= now[c] \/ a.interval <= lim.perRequest

\* C11: on a limiter with slack disabled a caller sleeps two perRequest.
C11_Witness ==
    /\ lim.maxSlack = 0
    /\ lim.perRequest > 0
    /\ \E c \in Callers :
          /\ pc[c] = "sleep"
          /\ cm.caller = c
          /\ cm.sleep = 2 * lim.perRequest
          /\ interval[c] = cm.sleep

\* C12, as stated: the interval a Take of the compare-and-swap limiter sleeps
\* is the one its successful attempt computed: the last it committed minus
\* the now of that attempt (zero when that attempt owed nothing).
C12_NoStaleInterval ==
    \A c \in Callers :
        (strat = "atomic" /\ pc[c] \in {"call", "sleep"}) =>
            interval[c] = new[c].last - now[c]

\* The pacing transition: from the committed state (l, d) and the now read,
\* the state to commit and the delay to sleep.
Pace(l, d, nw, lm) ==
    IF IsZero(l)
    THEN [last |-> nw, sleepFor |-> d, sleep |-> 0]
    ELSE LET s  == d + lm.perRequest - (nw - l)
             sf == IF s < lm.maxSlack THEN lm.maxSlack ELSE s
         IN  IF sf > 0
             THEN [last |-> nw + sf, sleepFor |-> 0, sleep |-> sf]
             ELSE [last |-> nw, sleepFor |-> sf, sleep |-> 0]

\* The callers whose Take has been called and has not committed yet.
Uncommitted == {c \in Callers : pc[c] \in {"lock", "now", "calc", "load", "cas"}}

\* C13: every committed state is the pacing transition of the committed
\* state just before it (the committing caller computed from that very
\* state), and every Take that got past its commit has committed once.
C13_AtomicTransition ==
    LET n == Len(hist)
    IN  /\ n >= 1 => hist[1].ts = hist[1].now /\ hist[1].sleepFor = 0
        /\ \A i \in 2..n :
              LET t == Pace(hist[i - 1].ts, hist[i - 1].sleepFor,
                            hist[i].now, lim)
              IN  hist[i].ts = t.last /\ hist[i].sleepFor = t.sleepFor
        /\ n >= 2 =>
              /\ cm.prevLast = hist[n - 1].ts
              /\ cm.prevSleepFor = hist[n - 1].sleepFor
        /\ n + Cardinality(Uncommitted) = started

\* C13: a CompareAndSwap has just been refused because the other caller
\* committed in between, and that caller has committed three times.
C13_Witness ==
    /\ strat = "atomic"
    /\ Len(hist) = 3
    /\ \E c \in Callers :
          /\ pc[c] = "now"
          /\ new[c].last # ZeroTime
          /\ cm.caller # c

\* C14: maxSlack is not positive and the sleepFor of every committed state,
\* the current one and every one before it, is at least maxSlack.
C14_DebtLowerBound ==
    /\ lim.maxSlack <= 0
    /\ CurSleepFor >= lim.maxSlack
    /\ \A i \in 1..Len(hist) : hist[i].sleepFor >= lim.maxSlack
    /\ \A c \in Callers : new[c].sleepFor >= lim.maxSlack

\* C14: a Take came so late that its credit was cut down to maxSlack.
C14_Witness ==
    /\ lim.maxSlack < 0
    /\ Len(hist) >= 2
    /\ cm.prevSleepFor + lim.perRequest - (cm.now - cm.prevLast) < lim.maxSlack
    /\ cm.sleepFor = lim.maxSlack
    /\ CurSleepFor = lim.maxSlack

\* C15, as stated: a Take that is not the first commits the pacing
\* transition of the state it found, sleeps the delay of that transition
\* (nothing when none is owed) and returns the last it committed.
C15_CommitRule ==
    (Len(hist) >= 1 /\ ~cm.first) =>
        LET t == Pace(cm.prevLast, cm.prevSleepFor, cm.now, lim)
        IN  /\ cm.ts = t.last
            /\ cm.sleepFor = t.sleepFor
            /\ cm.sleep = t.sleep
            /\ pc[cm.caller] \in {"call", "sleep"} =>
                  cm.ts = IF strat = "mutex" THEN cm.now + sleepFor
                                            ELSE new[cm.caller].last

\* C16: run on the same sequence of now values, atomicLimiter, mutexLimiter
\* and unsafeLimiter are in the same state after every Take, and that Take
\* slept the same duration and returned the same instant in all three.
C16_StrategyEquivalence ==
    /\ state.last = last /\ last = unsafe.last
    /\ state.sleepFor = sleepFor /\ sleepFor = unsafe.sleepFor
    /\ took["atomic"] = took["mutex"] /\ took["mutex"] = took["unsafe"]

\* C16: after earlier Takes the three limiters were given a now that lies
\* before their last, and their Takes slept more than perRequest.
C16_Witness ==
    /\ started >= 3
    /\ lim.maxSlack < 0
    /\ took["unsafe"].sleep > lim.perRequest
    /\ took["atomic"].sleep > lim.perRequest
    /\ took["mutex"].ret = unsafe.last

\* The callers of the lock-based limiter between the reading of now and the
\* end of their sleep.
InTake == {c \in Callers : pc[c] \in {"now", "calc", "sleep"}}

\* C17: in the lock-based limiter at most one caller is between reading now
\* and the end of its sleep, it is the holder of the lock, and while a caller
\* sleeps no step changes last or sleepFor.
C17_LockSerializes ==
    /\ [](strat = "mutex" => (Cardinality(InTake) <= 1 /\ InTake = mu))
    /\ [][(strat = "mutex" /\ \E c \in Callers :
                                  pc[c] = "sleep" /\ pc'[c] = "sleep")
             => UNCHANGED <<last, sleepFor>>]_vars

\* C17: a caller's sleep is over but it still holds the lock, and the other
\* caller waits for it.
C17_Witness ==
    /\ strat = "mutex"
    /\ Len(hist) >= 3
    /\ \E c, d \in Callers :
          /\ c # d
          /\ pc[c] = "sleep"
          /\ clk >= wake[c]
          /\ pc[d] = "lock"

\* C18: a caller of the compare-and-swap limiter that is about to sleep or
\* sleeps has committed (the state it stored is in the history and what it
\* sleeps towards), and a caller inside the retry loop has no sleep pending.
C18_SleepAfterCommit ==
    strat = "atomic" =>
        \A c \in Callers :
            /\ pc[c] \in {"call", "sleep"} =>
                  /\ new[c].ptr # NilState.ptr
                  /\ \E i \in 1..Len(hist) :
                        /\ hist[i].ts = new[c].last
                        /\ hist[i].now = now[c]
            /\ pc[c] \in {"now", "load", "cas"} => wake[c] = 0

\* C18: two callers sleep at once on the same limiter, the second having
\* committed while the first was already asleep.
C18_Witness ==
    /\ strat = "atomic"
    /\ \E c, d \in Callers :
          /\ c # d
          /\ pc[c] = "sleep" /\ wake[c] > clk
          /\ pc[d] = "sleep" /\ wake[d] > clk
          /\ cm.caller = d
          /\ new[d].last > new[c].last


\* ------------------------------------------------------------ life cycle

\* A Clock handed in with WithClock whose Now() is the zero time.Time when
\* the limiter is first used.
InitZero ==
    /\ strat \in Strategies
    /\ rate \in Rates
    /\ opts = <<>>
    /\ lim = New(strat, rate, opts)
    /\ callers = Callers
    /\ clk = ZeroTime
    /\ InitFields

SpecZero == InitZero /\ [][Next]_vars

\* C19: the limiter is Uninitialized while its lastInstant is the zero
\* timestamp and Active otherwise; it becomes Active at the first successful
\* commit, whatever the clock returns, only that commit takes the first-call
\* path, and it is never Uninitialized again.
C19_LifeCycle ==
    /\ Len(hist) = 0 => IsZero(CurLast)
    /\ Len(hist) >= 1 => ~IsZero(CurLast)
    /\ cm.first => Len(hist) = 1

\* ------------------------------------------------------------ option merging

\* Longest option list given to a constructor.
MaxOpts == 3

\* The options a caller may give.
Options ==
    {WithoutSlack, WithSlack(1), WithSlack(2), Per(1), Per(Second + 1),
     WithClock("mock")}

InitConfig ==
    /\ strat \in {"atomic", "unsafe"}
    /\ rate \in Rates
    /\ opts \in {<<>>} \cup {<<o>> : o \in Options}
    /\ lim = New(strat, rate, opts)
    /\ callers = Callers
    /\ InitRun

\* The limiter is constructed again, with one more option after those given.
WithOption(o) ==
    /\ Len(opts) < MaxOpts
    /\ opts' = Append(opts, o)
    /\ config' = buildConfig(opts')
    /\ lim' = New(strat, rate, opts')
    /\ UNCHANGED <<clk, quiet, strat, rate, callers, mockVars, unsafe, took, state, last,
                   sleepFor, mu, pc, now, old, new, interval, wake, hist, cm,
                   started>>

NextConfig == \E o \in Options : WithOption(o)

SpecConfig == InitConfig /\ [][NextConfig]_vars

\* The positions in the option list of the options that set field k.
Setting(k) == {i \in 1..Len(opts) : opts[i].kind = k}

\* The position of the last of them.
LastSetting(k) == CHOOSE i \in Setting(k) : \A j \in Setting(k) : j <= i

\* C20: buildConfig starts from the defaults (real clock, slack 10, window
\* one second) and applies the options in the order given: every field has
\* the value of the last option that sets it, and its default when none
\* does, so an option leaves the fields it does not set unchanged.
C20_OptionMerging ==
    /\ [](/\ config.slack = IF Setting("slack") = {} THEN DefaultSlack
                            ELSE opts[LastSetting("slack")].val
          /\ config.per = IF Setting("per") = {} THEN Second
                          ELSE opts[LastSetting("per")].val
          /\ config.clock = IF Setting("clock") = {} THEN "real"
                            ELSE opts[LastSetting("clock")].clock)
    /\ [][\A k \in {"slack", "per", "clock"} :
             opts'[Len(opts')].kind # k => config'[k] = config[k]]_vars

\* WithSlack(n) followed by WithoutSlack gives slack 0 and WithoutSlack
\* followed by WithSlack(n) gives n, with an option for another field in
\* between or after.
C20_Witness ==
    /\ Len(opts) = MaxOpts
    /\ \/ /\ opts[1] = WithSlack(2) /\ opts[3] = WithoutSlack
          /\ opts[2].kind = "per"
          /\ config.slack = 0 /\ config.per = opts[2].val
       \/ /\ opts[1] = WithoutSlack /\ opts[2] = WithSlack(2)
          /\ opts[3].kind = "clock"
          /\ config.slack = 2 /\ config.clock = "mock"

\* --------------------------------------------------------- derived constants

\* C21: a limiter built by newAtomicBased(rate, opts) has perRequest =
\* window / rate and maxSlack = -slack * perRequest: the slack is counted in
\* perRequest units for every window given through Per, and maxSlack is 0
\* with WithoutSlack.
C21_DerivedConstants ==
    (strat = "atomic" /\ ~lim.panic) =>
        /\ lim.perRequest = GoDiv(config.per, rate)
        /\ lim.maxSlack = -(config.slack * lim.perRequest)
        /\ lim.perRequest > 0 => SlackUnits = config.slack
        /\ (Setting("slack") # {} /\ opts[LastSetting("slack")] = WithoutSlack)
              => lim.maxSlack = 0

\* C21: a window other than a second, given through Per, with a slack of 2.
C21_Witness ==
    /\ strat = "atomic"
    /\ Len(opts) = 2
    /\ opts[1] = WithSlack(2)
    /\ opts[2] = Per(Second + 1)
    /\ rate = 1
    /\ lim.perRequest = Second + 1
    /\ lim.maxSlack = -2 * (Second + 1)

\* C22: for each strategy constructor the limiter in use reads time and
\* sleeps through the clock given by WithClock and uses the slack and window
\* given by WithSlack / WithoutSlack / Per: no supplied option is ignored.
C22_OptionsTakeEffect ==
    Len(hist) >= 1 =>
        /\ lim.clock = config.clock
        /\ lim.perRequest = GoDiv(config.per, rate)
        /\ lim.maxSlack = -(config.slack * lim.perRequest)

\* ------------------------------------------------------------- strict mode

\* C23: with WithoutSlack the limiter banks nothing: the debt of every
\* committed state is exactly 0, and an admission that follows a pause is
\* still a full perRequest after the one before it.
C23_StrictMode ==
    (Setting("slack") # {} /\ config.slack = 0) =>
        \A i \in 1..Len(hist) : hist[i].sleepFor = 0

\* ---------------------------------------------------------- the null limiter

\* NewUnlimited(): unlimited is an empty struct, it has no field to set.
NewUnlimited == Limiter(0, 0, "real")

InitUnlimited ==
    /\ strat = "unlimited"
    /\ rate = 1
    /\ opts = <<>>
    /\ lim = NewUnlimited
    /\ callers = Callers
    /\ InitRun

\* A null limiter that stamps the shared pacing state.
unlimitedTakeStamped(c) ==
    /\ c \in callers
    /\ pc[c] = "idle"
    /\ started < MaxRun
    /\ started' = started + 1
    /\ now' = [now EXCEPT ![c] = clk]
    /\ last' = clk
    /\ UNCHANGED <<clk, quiet, cfgVars, mockVars, unsafe, took, state, sleepFor, mu, pc,
                   old, new, interval, wake, hist, cm>>

\* unlimited.Take: return time.Now(). The caller's now holds what it returned.
unlimitedTake(c) ==
    /\ c \in callers
    /\ pc[c] = "idle"
    /\ started < MaxRun
    /\ started' = started + 1
    /\ now' = [now EXCEPT ![c] = clk]
    /\ UNCHANGED <<clk, quiet, cfgVars, mockVars, unsafe, took, state, last, sleepFor, mu,
                   pc, old, new, interval, wake, hist, cm>>

NextUnlimited ==
    \/ \E c \in Callers : unlimitedTake(c)
    \/ Tick

SpecUnlimited == InitUnlimited /\ [][NextUnlimited]_vars

\* C24: Take on the limiter returned by NewUnlimited never sleeps, reads and
\* writes no pacing state, and returns the current instant, for any number
\* of calls and of concurrent callers.
C24_NullLimiter ==
    /\ [](strat = "unlimited" =>
            /\ state = NilState /\ last = ZeroTime /\ sleepFor = 0
            /\ mu = {} /\ hist = <<>>
            /\ \A c \in Callers : pc[c] = "idle" /\ wake[c] = 0)
    /\ [][(strat = "unlimited" /\ started' = started + 1) =>
             /\ clk' = clk
             /\ \E c \in Callers :
                   /\ now'[c] = clk
                   /\ \A d \in Callers \ {c} : now'[d] = now[d]]_vars

\* C24: both callers have called the null limiter, six calls in all, and the
\* clock has not moved.
C24_Witness ==
    /\ strat = "unlimited"
    /\ started = MaxRun
    /\ clk = StartTime
    /\ \A c \in Callers : now[c] = clk

\* ------------------------------------------------------ several limiters

\* The second limiter of a test that chains two: ten times the rate in the
\* test, one more per window here. It is a mutexLimiter, so that it has
\* fields of its own in the model.
fast == newMutexBased(rate + 1, opts)

\* Two limiters on one clock: lim, an atomicLimiter, and fast.
InitChain ==
    /\ strat = "atomic"
    /\ rate \in Rates
    /\ opts \in OptLists
    /\ lim = newAtomicBased(rate, opts)
    /\ callers = {1}
    /\ InitRun

\* The goroutine calls Take on lim; the clock is at the end of its Sleep
\* when the Take returns.
TakeSlow ==
    LET a == atomicTake(state.last, state.sleepFor, clk, lim)
    IN  /\ started < MaxRun
        /\ started' = started + 1
        /\ state' = [ptr |-> freshPtr, last |-> a.last, sleepFor |-> a.sleepFor]
        /\ took' = [took EXCEPT !["atomic"] = [sleep |-> a.sleep, ret |-> a.ret]]
        /\ clk' = clk + a.sleep
        /\ UNCHANGED <<quiet, cfgVars, mockVars, unsafe, last, sleepFor, mu, pc, now, old,
                       new, interval, wake, hist, cm>>

\* A Take on fast that also stamps the state of lim, as limiters sharing
\* their pacing state would.
TakeFastShared ==
    LET m == mutexTake(last, sleepFor, clk, fast)
    IN  /\ started < MaxRun
        /\ started' = started + 1
        /\ last' = m.last
        /\ sleepFor' = m.sleepFor
        /\ state' = [ptr |-> freshPtr, last |-> m.last, sleepFor |-> m.sleepFor]
        /\ took' = [took EXCEPT !["mutex"] = [sleep |-> m.sleep, ret |-> m.ret]]
        /\ clk' = clk + m.sleep
        /\ UNCHANGED <<quiet, cfgVars, mockVars, unsafe, mu, pc, now, old, new, interval,
                       wake, hist, cm>>

\* The goroutine calls Take on fast.
TakeFast ==
    LET m == mutexTake(last, sleepFor, clk, fast)
    IN  /\ started < MaxRun
        /\ started' = started + 1
        /\ last' = m.last
        /\ sleepFor' = m.sleepFor
        /\ took' = [took EXCEPT !["mutex"] = [sleep |-> m.sleep, ret |-> m.ret]]
        /\ clk' = clk + m.sleep
        /\ UNCHANGED <<quiet, cfgVars, mockVars, unsafe, state, mu, pc, now, old, new,
                       interval, wake, hist, cm>>

NextChain ==
    \/ TakeSlow
    \/ TakeFast
    \/ Tick

SpecChain == InitChain /\ [][NextChain]_vars

\* C25: a Take on one limiter changes only that limiter's pacing state: the
\* lastInstant and debt of the other limiter are unchanged, also when a
\* caller chains Takes on limiters that share one clock.
C25_InstanceIndependence ==
    [][/\ state' # state => UNCHANGED <<last, sleepFor>>
       /\ <<last, sleepFor>>' # <<last, sleepFor>> => state' = state
       /\ took'["atomic"] # took["atomic"] => UNCHANGED <<last, sleepFor>>
       /\ took'["mutex"] # took["mutex"] => state' = state]_vars

\* C25: both limiters are in use, a Take on each has slept, and they stand
\* at different instants.
C25_Witness ==
    /\ started >= 4
    /\ took["atomic"].sleep > 0
    /\ took["mutex"].sleep > 0
    /\ ~IsZero(state.last) /\ ~IsZero(last)
    /\ state.last # last

\* ------------------------------------------------------- spacing and bursts

\* C26: with slack disabled, for every interleaving of concurrent Takes on
\* one limiter, also when the clock advances between a caller's clock read
\* and its state load, any two distinct Takes return timestamps that differ
\* by at least perRequest.
C26_MinimumSpacing ==
    lim.maxSlack = 0 =>
        \A i, j \in 1..Len(hist) :
            i < j => hist[j].ts - hist[i].ts >= (j - i) * lim.perRequest

\* C26: a Take commits with a now it read before the Take committed just
\* before it read its own.
C26_Witness ==
    /\ lim.maxSlack = 0
    /\ lim.perRequest > 0
    /\ Cardinality(callers) > 1
    /\ \E i \in 2..Len(hist) :
          /\ hist[i].now < hist[i - 1].now
          /\ hist[i].ts = hist[i - 1].ts + lim.perRequest

\* Number of committed Takes whose timestamp lies in the closed interval
\* [t, t + T].
CountWithin(t, T) ==
    Cardinality({i \in 1..Len(hist) : t <= hist[i].ts /\ hist[i].ts <= t + T})

\* C27: for a limiter with slack S, under every arrival pattern and
\* interleaving, the number of Takes whose timestamps fall in any closed
\* interval of length T is at most floor(T / perRequest) + 1 + S.
C27_GeneralBurstBound ==
    lim.perRequest > 0 =>
        \A t \in WindowStarts : \A T \in 0..MaxTime :
            CountWithin(t, T) <= (T \div lim.perRequest) + 1 + SlackUnits

\* C27: the bound is met: with a slack of 1, an interval holds
\* floor(T / perRequest) + 2 timestamps, S + 1 of them at one instant.
C27_Witness ==
    /\ lim.perRequest > 0
    /\ SlackUnits = 1
    /\ Len(hist) >= 3
    /\ \E t \in WindowStarts : \E T \in 1..MaxTime :
          /\ CountWithin(t, T) = (T \div lim.perRequest) + 2
          /\ CountWithin(t, 0) = 2

\* C28: in every committed state of atomicLimiter and mutexLimiter,
\* maxSlack <= debt <= 0, and whenever the committed lastInstant is later
\* than the now read by the committing Take, the committed debt is 0.
C28_DebtNeverPositive ==
    /\ \A i \in 1..Len(hist) :
          /\ lim.maxSlack <= hist[i].sleepFor
          /\ hist[i].sleepFor <= 0
          /\ hist[i].ts > hist[i].now => hist[i].sleepFor = 0
    /\ strat = "atomic" =>
          /\ lim.maxSlack <= state.sleepFor /\ state.sleepFor <= 0
          /\ \A c \in Callers :
                pc[c] \in {"cas", "call", "sleep"} =>
                    /\ new[c].sleepFor <= 0
                    /\ new[c].last > now[c] => new[c].sleepFor = 0
    /\ (strat = "mutex" /\ mu = {}) =>
          lim.maxSlack <= sleepFor /\ sleepFor <= 0

\* C28: a Take banked credit, and a later Take was delayed: it committed a
\* lastInstant later than the now it read, with debt 0.
C28_Witness ==
    /\ \E i, j \in 1..Len(hist) :
          /\ i < j
          /\ hist[i].sleepFor < 0
          /\ hist[j].ts > hist[j].now
          /\ hist[j].sleepFor = 0
    /\ CurLast = cm.ts
    /\ cm.ts > cm.now
    /\ CurSleepFor = 0
    /\ mu = {}

\* ----------------------------------------------------------- returning

\* C29: when a Take returns the timestamp ts the clock has reached ts, for
\* every strategy and interleaving, Sleep blocking for at least the duration
\* it is asked for.
C29_NoEarlyReturn ==
    [][\A c \in Callers :
          (pc[c] # "idle" /\ pc'[c] = "idle") =>
              clk' >= (IF strat = "mutex" THEN last' ELSE new[c].last)]_vars

\* C29: the Take that committed last was delayed and has returned, at the
\* very instant it was authorized for.
C29_Witness ==
    /\ Len(hist) >= 2
    /\ cm.sleep > 0
    /\ cm.ts > cm.now
    /\ pc[cm.caller] = "idle"
    /\ clk = cm.ts
    /\ CurLast = cm.ts

\* C30: for every rate > 0 and window > 0 perRequest = window / rate is at
\* least one unit of the clock, so an accepted configuration never yields a
\* limiter that does not throttle at all.
C30_PositiveInterval ==
    (rate > 0 /\ config.per > 0 /\ Len(hist) >= 2) => lim.perRequest >= 1

\* ------------------------------------------------------ the unsafe limiter

\* C31: newUnsafeBased derives maxSlack as -slack * perRequest: the slack is
\* counted in perRequest units also when a window other than one second is
\* given through Per, exactly as newAtomicBased does.
C31_UnsafeSlackUnits ==
    (strat = "unsafe" /\ ~lim.panic) =>
        /\ lim.maxSlack = -(config.slack * lim.perRequest)
        /\ lim = newAtomicBased(rate, opts)

\* -------------------------------------------- the pointer-swap limiter

\* New of the limiter that swaps an unsafe.Pointer: its options are
\* functions on the limiter, WithoutSlack sets maxSlack to 0.
newLimiter(r, os) ==
    IF r = 0 THEN Panic
    ELSE Limiter(GoDiv(Second, r),
                 IF \E i \in 1..Len(os) : os[i] = WithoutSlack
                 THEN 0 ELSE GoDiv((-10) * Second, r),
                 "real")

\* limiter.Take run by one goroutine, from the call to the return: newState
\* starts from state{}, whatever the state loaded holds.
limiterTake(l, nw, lm) ==
    IF IsZero(l)
    THEN [last |-> nw, sleepFor |-> 0, sleep |-> 0, ret |-> nw]
    ELSE LET s  == lm.perRequest - (nw - l)
             sf == IF s < lm.maxSlack THEN lm.maxSlack ELSE s
         IN  IF sf > 0
             THEN [last |-> nw + sf, sleepFor |-> sf, sleep |-> sf,
                   ret |-> nw + sf]
             ELSE [last |-> nw, sleepFor |-> sf, sleep |-> 0, ret |-> nw]

InitPointer ==
    /\ strat = "pointer"
    /\ rate \in Rates
    /\ opts \in {<<>>, <<WithoutSlack>>}
    /\ lim = newLimiter(rate, opts)
    /\ callers = {1}
    /\ InitRun

\* The goroutine calls Take; the clock is at the end of its Sleep when the
\* Take returns.
PointerTake ==
    LET a == limiterTake(state.last, clk, lim)
    IN  /\ started < MaxRun
        /\ started' = started + 1
        /\ state' = [ptr |-> freshPtr, last |-> a.last, sleepFor |-> a.sleepFor]
        /\ Observe(Commit(1, clk, a.sleep, IsZero(state.last), state.last,
                          state.sleepFor, a.last, a.sleepFor))
        /\ clk' = clk + a.sleep
        /\ UNCHANGED <<quiet, cfgVars, mockVars, unsafe, took, last, sleepFor, mu, pc,
                       now, old, new, interval, wake>>

NextPointer ==
    \/ PointerTake
    \/ Tick

SpecPointer == InitPointer /\ [][NextPointer]_vars

\* C32: in the pointer-swap limiter with default slack, credit banked by a
\* Take that committed debt' <= 0 carries forward: the next Take computes its
\* debt as the committed debt + perRequest - (now - lastInstant), and is
\* delayed only by what that leaves.
C32_CreditCarryForward ==
    (strat = "pointer" /\ opts = <<>> /\ Len(hist) >= 2 /\ cm.prevSleepFor <= 0) =>
        LET t == Pace(cm.prevLast, cm.prevSleepFor, cm.now, lim)
        IN  /\ cm.ts = t.last
            /\ cm.sleep = t.sleep
            /\ t.sleep = 0 => cm.sleepFor = t.sleepFor

\* ------------------------------------------------------- the mock clock

\* Longest duration given to Mock.Sleep.
MaxNap == 2

\* Longest duration given to Mock.Add.
MaxAdd == 2

\* Number of calls of Mock.Add.
MaxAdds == 2

\* Everything but the mock clock and the goroutines that use it.
limVars == <<clk, quiet, cfgVars, state, last, sleepFor, mu, pc, now, old, new,
             interval, wake, hist, cm, started, unsafe, took>>

InitMock ==
    /\ strat = "atomic"
    /\ rate = 1
    /\ opts = <<>>
    /\ lim = New(strat, rate, opts)
    /\ callers = Callers
    /\ InitRun

\* The timers heap.Pop may return: those with the least deadline.
Earliest == {t \in mock.timers : \A u \in mock.timers : t.next <= u.next}

\* Mock.Sleep(d) -> After -> Timer: the timer is made, its deadline computed
\* from m.now, read without the lock.
SleepTimer(g, d) ==
    /\ sleeper[g].pc = "idle"
    /\ sleeper' = [sleeper EXCEPT ![g] = [pc |-> "timer", next |-> mock.now + d]]
    /\ UNCHANGED <<limVars, mock, add>>

\* Mock.addTimer: Lock, heap.Push, Unlock.
SleepAddTimer(g) ==
    /\ sleeper[g].pc = "timer"
    /\ add.pc # "locked"
    /\ mock' = [mock EXCEPT !.timers = @ \cup {[g |-> g, next |-> sleeper[g].next]}]
    /\ sleeper' = [sleeper EXCEPT ![g].pc = "after"]
    /\ UNCHANGED <<limVars, add>>

\* Mock.Sleep: After has returned the channel, the goroutine blocks in the
\* receive.
SleepReceive(g) ==
    /\ sleeper[g].pc = "after"
    /\ sleeper' = [sleeper EXCEPT ![g].pc = "recv"]
    /\ UNCHANGED <<limVars, mock, add>>

\* Mock.Add(d): Lock; end := m.now.Add(d). The record keeps the time at the
\* call and the goroutines whose timers are pending then.
AddCall(d) ==
    /\ add.pc = "idle"
    /\ add.calls < MaxAdds
    /\ add' = [pc |-> "locked", end |-> mock.now + d, start |-> mock.now,
               cur |-> 0, fired |-> <<>>,
               pending |-> {t.g : t \in mock.timers}, calls |-> add.calls + 1]
    /\ UNCHANGED <<limVars, mock, sleeper>>

\* The loop test of Add, with the lock held: a timer is popped, m.now set to
\* its deadline and the lock released for its Tick; or the loop ends, the
\* lock is released and Add returns.
AddLoop ==
    /\ add.pc = "locked"
    /\ IF mock.timers # {} /\ mock.now < add.end
       THEN \E t \in Earliest :
               /\ mock' = [now |-> t.next, timers |-> mock.timers \ {t}]
               /\ add' = [add EXCEPT !.pc = "tick", !.cur = t.g]
       ELSE /\ add' = [add EXCEPT !.pc = "idle", !.cur = 0]
            /\ UNCHANGED mock
    /\ UNCHANGED <<limVars, sleeper>>

\* t.Tick(): the send succeeds when the goroutine is blocked in its receive
\* and is dropped otherwise; then Add takes the lock again.
AddTick ==
    /\ add.pc = "tick"
    /\ LET g == add.cur
           delivered == sleeper[g].pc = "recv"
       IN  /\ sleeper' = IF delivered
                         THEN [sleeper EXCEPT ![g].pc = "done"]
                         ELSE sleeper
           /\ add' = [add EXCEPT !.pc = "locked",
                                 !.fired = Append(@, [g |-> g,
                                                      next |-> sleeper[g].next,
                                                      delivered |-> delivered])]
    /\ UNCHANGED <<limVars, mock>>

NextMock ==
    \/ \E g \in Callers : \E d \in 1..MaxNap : SleepTimer(g, d)
    \/ \E g \in Callers : SleepAddTimer(g)
    \/ \E g \in Callers : SleepReceive(g)
    \/ \E d \in 1..MaxAdd : AddCall(d)
    \/ AddLoop
    \/ AddTick

\* Goroutines that each call Sleep once and a goroutine that calls Add.
SpecMock == InitMock /\ [][NextMock]_vars

\* C33: Mock.Add(d) moves the mock clock forward by exactly d: when Add has
\* returned Now() is the time at the call plus d, whether or not timers are
\* pending, and the clock never exceeds that value during the call.
C33_MockAdvance ==
    /\ (add.calls > 0 /\ add.pc = "idle") => mock.now = add.end
    /\ add.pc # "idle" => mock.now <= add.end

\* C34: during Mock.Add(d) the pending timers are fired in non-decreasing
\* deadline order, and only timers whose deadline is not later than the time
\* at the start of Add plus d are fired.
C34_ReleaseOrder ==
    \A i \in 1..Len(add.fired) :
        add.fired[i].g \in add.pending =>
            /\ add.fired[i].next <= add.end
            /\ \A j \in (i + 1)..Len(add.fired) :
                  add.fired[j].g \in add.pending =>
                      add.fired[i].next <= add.fired[j].next

\* C35: every goroutine that called Mock.Sleep(d) and whose deadline lies in
\* the interval covered by a later Mock.Add is released before that Add
\* returns.
C35_NoLostWakeup ==
    (add.calls > 0 /\ add.pc = "idle") =>
        \A g \in add.pending :
            sleeper[g].next <= add.end => sleeper[g].pc = "done"

====
